---- MODULE Spec2Model ----
(***************************************************************************)
(* The SignalFx handler of fullerite (src/fullerite/handler/signalfx.go):  *)
(* the Run loop that drains the handler's channel, buffers DataPoints,     *)
(* decides when to flush, reports the handler's own metrics, and           *)
(* emitMetrics, which posts one batch to the SignalFx endpoint.            *)
(*                                                                         *)
(* Time is a monotone clock counted in ticks of one second; every          *)
(* time.Now() / time.Since() of the code reads it at the step that         *)
(* executes the call, and the clock may advance between any two steps.     *)
(***************************************************************************)
EXTENDS Integers, Sequences, FiniteSets, TLC

\* ---------------------------------------------------------------- bounds
\* The clock stops advancing at MaxTime.
MaxTime == 4
\* Producers send at most MaxMetrics metrics in total.
MaxMetrics == 4
\* maxBufferSize is configured to a value in 1..MaxBufferSize.
MaxBufferSize == 3

\* convertToProto is applied at most MaxConv times in a run of ConvSpec.
MaxConv == 2

\* LongRunSpec: the clock stops at LongRunMaxTime, the producer sends at
\* most LongRunMaxMetrics metrics, and maxBufferSize is 1 or LargeBufferSize.
LongRunMaxTime == 8
LongRunMaxMetrics == 5
LargeBufferSize == 6

\* DrainSpec: maxBufferSize is DrainBufferSize.
DrainBufferSize == 2

\* s.interval, in seconds (DefaultInterval unless configured otherwise).
Interval == 2

\* ------------------------------------------------------------ data model
Producers == {"p1", "p2"}

\* The metrics a producer may send (metric.Metric: Name, Value, MetricType).
\* Run never reads a metric's content, and every DataPoint is told apart by
\* its address, so one metric stands for all of them here.
MetricInputs ==
    { [Name |-> <<"cpu">>, Value |-> 1, MetricType |-> "gauge"] }

NoMetric == [Name |-> <<>>, Value |-> 0, MetricType |-> "none"]

\* s.Prefix(): the configured metric-name prefix.
Prefix == <<"pfx.">>

\* The status lines a SignalFx endpoint may answer with (rsp.Status: the
\* status code followed by the reason phrase the server chose to send).
Statuses ==
    {"200 OK", "200 Success", "201 Created", "500 Internal Server Error"}

\* rsp.StatusCode: the status code of a status line.
StatusCode(status) ==
    CASE status \in {"200 OK", "200 Success"} -> 200
      [] status = "201 Created" -> 201
      [] status = "500 Internal Server Error" -> 500

VARIABLES
    now,                        \* the wall clock
    pc,                         \* position of the Run goroutine
    sending,                    \* per producer: the metric of its blocked channel send
    closed,                     \* the channel has been closed
    authToken, endpoint,        \* configuration
    maxBufferSize,              \* configuration
    datapoints,                 \* Run's buffer
    lastEmission,               \* Run local
    lastHandlerMetricsEmission, \* Run local
    emitIntervalPassed,         \* Run local (loop body)
    emitHandlerIntervalPassed,  \* Run local (loop body)
    doEmit,                     \* Run local (loop body)
    beforeEmission,             \* Run local (loop body)
    emissionTimes,              \* BaseHandler.emissionTimes
    metricsSent,                \* BaseHandler counter read by makeMetricsSentMetric
    metricsDropped,             \* BaseHandler counter read by makeMetricsDroppedMetric
    outcome,                    \* how the emitMetrics call of this iteration ended
    nextAddr,                   \* allocator: address of the next new(DataPoint)
    \* ---- history (observation only; no action's guard reads these)
    nsent,                      \* metrics sent by producers so far
    selfAddrs,                  \* addresses of the self-metric DataPoints
    handed,                     \* addresses of the DataPoints handed to emitMetrics, in order
    httpIssued,                 \* some emitMetrics call reached client.Do
    now68,                      \* clock value read at line 68 of this iteration
    flushed,                    \* the latest iteration made a flush attempt
    everFailed,                 \* some flush attempt ended without a successful send
    attempts                    \* emitMetrics calls made by Run since the latest self-report step

vars == << now, pc, sending, closed, authToken, endpoint, maxBufferSize,
           datapoints, lastEmission, lastHandlerMetricsEmission,
           emitIntervalPassed, emitHandlerIntervalPassed, doEmit,
           beforeEmission, emissionTimes, metricsSent, metricsDropped,
           outcome, nextAddr, nsent, selfAddrs, handed, httpIssued,
           now68, flushed, everFailed, attempts >>

config == << authToken, endpoint, maxBufferSize >>
producerVars == << sending, closed, nsent >>
selfState == << emissionTimes, metricsSent, metricsDropped >>
anchors == << lastEmission, lastHandlerMetricsEmission >>
loopLocals == << emitIntervalPassed, emitHandlerIntervalPassed, doEmit,
                 beforeEmission >>
history == << selfAddrs, handed, httpIssued, now68, flushed,
              everFailed, attempts >>

\* ------------------------------------------------------------- helpers
RECURSIVE SumSeq(_)
SumSeq(s) == IF s = <<>> THEN 0 ELSE Head(s) + SumSeq(Tail(s))

\* The addresses of a sequence of DataPoints.
Addrs(dps) == [i \in 1..Len(dps) |-> dps[i].addr]

\* Mutant of convertToProto: a counter is encoded as a gauge.
convertToProtoCounterAsGauge(m, addr) ==
    [ addr       |-> addr,
      Metric     |-> Prefix \o m.Name,
      Value      |-> m.Value,
      Source     |-> "fullerite",
      MetricType |-> CASE m.MetricType \in {"gauge", "counter"} -> "GAUGE"
                       [] m.MetricType = "cumcounter" -> "CUMULATIVE_COUNTER"
                       [] OTHER -> "unset" ]

\* convertToProto: the DataPoint built from a metric, allocated at addr.
convertToProto(m, addr) ==
    [ addr       |-> addr,
      Metric     |-> Prefix \o m.Name,
      Value      |-> m.Value,
      Source     |-> "fullerite",
      MetricType |-> CASE m.MetricType = "gauge" -> "GAUGE"
                       [] m.MetricType = "counter" -> "COUNTER"
                       [] m.MetricType = "cumcounter" -> "CUMULATIVE_COUNTER"
                       [] OTHER -> "unset" ]

\* BaseHandler.makeEmissionTimeMetric: one summary value of emissionTimes.
makeEmissionTimeMetric ==
    [ Name |-> <<"HandlerEmitTiming">>,
      Value |-> IF emissionTimes = <<>> THEN 0
                ELSE SumSeq(emissionTimes) \div Len(emissionTimes),
      MetricType |-> "gauge" ]

\* BaseHandler.makeMetricsSentMetric: the running sent counter.
makeMetricsSentMetric ==
    [ Name |-> <<"MetricsSent">>, Value |-> metricsSent, MetricType |-> "counter" ]

\* BaseHandler.makeMetricsDroppedMetric: the running dropped counter.
makeMetricsDroppedMetric ==
    [ Name |-> <<"MetricsDropped">>, Value |-> metricsDropped, MetricType |-> "counter" ]

\* BaseHandler.resetEmissionTimes / resetMetricsSent / resetMetricsDropped.
resetEmissionTimes == <<>>
resetMetricsSent == 0
resetMetricsDropped == 0

\* Mutant of EmitResults: the send is skipped only when both authToken and
\* endpoint are missing.
EmitResultsSkipIfBothMissing(dps) ==
    IF Len(dps) = 0 THEN {"empty"}
    ELSE IF authToken = "" /\ endpoint = "" THEN {"skipped"}
    ELSE {"marshal", "request", "network"} \cup Statuses

\* The ways one emitMetrics(dps) call can end, given the configuration.
\* "empty": empty payload; "skipped": authToken or endpoint missing;
\* "marshal": proto.Marshal failed; "request": http.NewRequest failed;
\* "network": client.Do failed; otherwise the status line of the response.
EmitResults(dps) ==
    IF Len(dps) = 0 THEN {"empty"}
    ELSE IF authToken = "" \/ endpoint = "" THEN {"skipped"}
    ELSE {"marshal", "request", "network"} \cup Statuses

AllResults == {"empty", "skipped", "marshal", "request", "network"} \cup Statuses

\* emitMetrics reached client.Do(req)  (line 184).
IssuedRequest(res) == res \in {"network"} \cup Statuses

\* emitMetrics reached its "Successfully sent" line  (lines 191, 200).
Succeeded(res) == res = "200 OK"

\* time.Since(t).Seconds() >= float64(s.interval)  (lines 68, 69)
IntervalPassed(t) == now - t >= Interval

\* Mutant of BufferSizeLimitReached: strictly more than maxBufferSize.
BufferSizeLimitExceeded(dps) == Len(dps) > maxBufferSize

\* len(datapoints) >= s.maxBufferSize  (line 70)
BufferSizeLimitReached(dps) == Len(dps) >= maxBufferSize

\* Mutant of DoEmit: both triggers required.
DoEmitBoth(intervalPassed, sizeReached) == intervalPassed /\ sizeReached

\* emitIntervalPassed || bufferSizeLimitReached  (line 71)
DoEmit(intervalPassed, sizeReached) == intervalPassed \/ sizeReached

\* Mutant of HandlerEmissionStamp: the anchor is not moved.
HandlerEmissionStampKept == lastHandlerMetricsEmission

\* lastHandlerMetricsEmission = time.Now()  (line 74)
HandlerEmissionStamp == now

\* Mutant of SentAfterEmit: a successful emission adds the batch size to the
\* sent counter.
SentCountedOnSuccess(dps, res) ==
    IF res = "200 OK" THEN metricsSent + Len(dps) ELSE metricsSent

\* The sent counter after emitMetrics(dps) ended with res: emitMetrics
\* (lines 148-201) assigns no field of the handler on any path.
SentAfterEmit(dps, res) == metricsSent

\* The dropped counter after emitMetrics(dps) ended with res.
DroppedAfterEmit(dps, res) == metricsDropped

\* Mutant of EmitReturnsTo: a failed emission ends the consumer.
EmitFailureEndsRun(res) == IF Succeeded(res) THEN "l96" ELSE "done"

\* Where control goes when emitMetrics ends with res: every path of
\* emitMetrics is a plain return to Run, line 96.
EmitReturnsTo(res) == "l96"

\* Mutant of BufferAfterEmit: a batch that was not sent is kept for retry.
BufferKeptOnFailure(dps, res) == IF Succeeded(res) THEN <<>> ELSE dps

\* datapoints = make([]*DataPoint, 0, s.maxBufferSize)  (line 103), run
\* whatever emitMetrics did with the batch dps.
BufferAfterEmit(dps, res) == <<>>

\* Mutant of EmissionStamp: the stamp taken before the call is reused.
EmissionStampBeforeCall == beforeEmission

\* lastEmission = time.Now()  (line 96)
EmissionStamp == now

\* Mutant of AppendPoint: the new DataPoint is put in front of the buffer.
PrependPoint(dps, dp) == <<dp>> \o dps

\* datapoints = append(datapoints, dp)  (lines 66, 79, 84, 89)
AppendPoint(dps, dp) == Append(dps, dp)

\* Mutant of SelfReportDue: the handler reports on itself only in an
\* iteration that also flushes.
SelfReportOnlyWithFlush(handlerIntervalPassed, emit) ==
    handlerIntervalPassed /\ emit

\* if emitHandlerIntervalPassed  (line 73); doEmit is not consulted.
SelfReportDue(handlerIntervalPassed, emit) == handlerIntervalPassed

\* Mutant of RangeDone: the loop ends as soon as no send is waiting.
RangeDoneWhenIdle == \A p \in Producers : sending[p] = NoMetric

\* for incomingMetric := range s.Channel()  (line 63) ends when the channel
\* is closed; the channel is unbuffered, so nothing is left in it.
RangeDone == closed

\* Mutant of Received: the receive leaves the producer's send pending, so
\* the same metric is received again.
ReceivedButPending(p) == sending

\* The producers' sends after Run received the metric of producer p: the
\* receive of line 63 completes that one send.
Received(p) == [sending EXCEPT ![p] = NoMetric]

\* Mutant of RecordEmissionTime: only a successful emission is timed.
RecordEmissionTimeOnSuccess(times, elapsed, res) ==
    IF res = "200 OK" THEN Append(times, elapsed) ELSE times

\* s.emissionTimes = append(s.emissionTimes, emissionTimeInSeconds)
\* (lines 98-100), run
\* however the emitMetrics call ended (res).
RecordEmissionTime(times, elapsed, res) == Append(times, elapsed)

\* Mutant of HandedAtExit: Run flushes what is buffered before it returns.
HandedWithFinalFlush(h, dps) == h \o Addrs(dps)

\* The DataPoints handed to emitMetrics once the range loop has ended
\* (lines 105-106): Run returns with no further emitMetrics call.
HandedAtExit(h, dps) == h

\* ---------------------------------------------------------------- Init
\* NewSignalFx and Configure have run; Run has not started.
Init ==
    /\ now = 0
    /\ pc = "start"
    /\ sending = [p \in Producers |-> NoMetric]
    /\ closed = FALSE
    /\ authToken \in {"", "token"}
    /\ endpoint \in {"", "https://ingest"}
    /\ maxBufferSize \in 1..MaxBufferSize
    /\ datapoints = <<>>
    /\ lastEmission = 0
    /\ lastHandlerMetricsEmission = 0
    /\ emitIntervalPassed = FALSE
    /\ emitHandlerIntervalPassed = FALSE
    /\ doEmit = FALSE
    /\ beforeEmission = 0
    /\ emissionTimes = <<>>
    /\ metricsSent = 0
    /\ metricsDropped = 0
    /\ outcome = "none"
    /\ nextAddr = 1
    /\ nsent = 0
    /\ selfAddrs = {}
    /\ handed = <<>>
    /\ httpIssued = FALSE
    /\ now68 = 0
    /\ flushed = FALSE
    /\ everFailed = FALSE
    /\ attempts = 0

\* ------------------------------------------------------------- actions
\* The clock advances.
Tick ==
    /\ now < MaxTime
    /\ now' = now + 1
    /\ UNCHANGED << pc, config, producerVars, datapoints, anchors, loopLocals,
                    selfState, outcome, nextAddr, history >>

\* A producer starts a send on the (unbuffered) channel and blocks in it.
Send(p, m) ==
    /\ ~closed
    /\ nsent < MaxMetrics
    /\ sending[p] = NoMetric
    /\ sending' = [sending EXCEPT ![p] = m]
    /\ nsent' = nsent + 1
    /\ UNCHANGED << now, pc, closed, config, datapoints, anchors, loopLocals,
                    selfState, outcome, nextAddr, history >>

\* The channel is closed (no send is in progress: closing under a blocked
\* sender panics that sender).
Close ==
    /\ ~closed
    /\ \A p \in Producers : sending[p] = NoMetric
    /\ closed' = TRUE
    /\ UNCHANGED << now, pc, sending, nsent, config, datapoints, anchors,
                    loopLocals, selfState, outcome, nextAddr, history >>

\* Run, lines 58-62.
RunStart ==
    /\ pc = "start"
    /\ datapoints' = <<>>
    /\ lastEmission' = now
    /\ lastHandlerMetricsEmission' = now
    /\ pc' = "recv"
    /\ UNCHANGED << now, config, producerVars, loopLocals, selfState, outcome,
                    nextAddr, history >>

\* Run, lines 63-68: receive a metric, append its DataPoint, read the clock
\* for emitIntervalPassed.
Dequeue(p) ==
    /\ pc = "recv"
    /\ sending[p] # NoMetric
    /\ sending' = Received(p)
    /\ datapoints' = AppendPoint(datapoints, convertToProto(sending[p], nextAddr))
    /\ nextAddr' = nextAddr + 1
    /\ emitIntervalPassed' = IntervalPassed(lastEmission)
    /\ now68' = now
    /\ flushed' = FALSE
    /\ pc' = "l69"
    /\ UNCHANGED << now, closed, nsent, config, anchors,
                    emitHandlerIntervalPassed, doEmit, beforeEmission, selfState,
                    outcome, selfAddrs, handed, httpIssued, everFailed,
                    attempts >>

\* Run, lines 69-71: read the clock for emitHandlerIntervalPassed, compare
\* the buffer size, decide doEmit.
CheckTriggers ==
    /\ pc = "l69"
    /\ emitHandlerIntervalPassed' = IntervalPassed(lastHandlerMetricsEmission)
    /\ doEmit' = DoEmit(emitIntervalPassed, BufferSizeLimitReached(datapoints))
    /\ pc' = "l73"
    /\ UNCHANGED << now, config, producerVars, datapoints, anchors,
                    emitIntervalPassed, beforeEmission, selfState, outcome,
                    nextAddr, history >>

\* Run, lines 73-90: the handler reports its own metrics and resets them.
SelfReport ==
    /\ pc = "l73"
    /\ SelfReportDue(emitHandlerIntervalPassed, doEmit)
    /\ lastHandlerMetricsEmission' = HandlerEmissionStamp
    /\ datapoints' =
           AppendPoint(
             AppendPoint(
               AppendPoint(datapoints,
                           convertToProto(makeEmissionTimeMetric, nextAddr)),
               convertToProto(makeMetricsSentMetric, nextAddr + 1)),
             convertToProto(makeMetricsDroppedMetric, nextAddr + 2))
    /\ emissionTimes' = resetEmissionTimes
    /\ metricsSent' = resetMetricsSent
    /\ metricsDropped' = resetMetricsDropped
    /\ selfAddrs' = selfAddrs \cup {nextAddr, nextAddr + 1, nextAddr + 2}
    /\ nextAddr' = nextAddr + 3
    /\ attempts' = 0
    /\ pc' = "l92"
    /\ UNCHANGED << now, config, producerVars, lastEmission, loopLocals, outcome,
                    handed, httpIssued, now68, flushed, everFailed >>

\* Run, line 73 with emitHandlerIntervalPassed false.
SkipSelfReport ==
    /\ pc = "l73"
    /\ ~SelfReportDue(emitHandlerIntervalPassed, doEmit)
    /\ pc' = "l92"
    /\ UNCHANGED << now, config, producerVars, datapoints, anchors, loopLocals,
                    selfState, outcome, nextAddr, history >>

\* Run, lines 92-95: doEmit holds; read the clock and call emitMetrics.
BeginEmit ==
    /\ pc = "l92"
    /\ doEmit
    /\ beforeEmission' = now
    /\ handed' = handed \o Addrs(datapoints)
    /\ flushed' = TRUE
    /\ attempts' = attempts + 1
    /\ pc' = "l95"
    /\ UNCHANGED << now, config, producerVars, datapoints, anchors,
                    emitIntervalPassed, emitHandlerIntervalPassed, doEmit,
                    selfState, outcome, nextAddr, selfAddrs, httpIssued, now68,
                    everFailed >>

\* Run, line 92 with doEmit false: the iteration ends, back to the channel
\* receive (the loop body's locals go out of scope).
SkipEmit ==
    /\ pc = "l92"
    /\ ~doEmit
    /\ emitIntervalPassed' = FALSE
    /\ emitHandlerIntervalPassed' = FALSE
    /\ doEmit' = FALSE
    /\ now68' = 0
    /\ pc' = "recv"
    /\ UNCHANGED << now, config, producerVars, datapoints, anchors,
                    beforeEmission, selfState, outcome, nextAddr, selfAddrs,
                    handed, httpIssued, flushed, everFailed, attempts >>

\* emitMetrics, lines 148-201: the call ends in one of its results.
EmitMetrics(res) ==
    /\ pc = "l95"
    /\ res \in EmitResults(datapoints)
    /\ outcome' = res
    /\ httpIssued' = (httpIssued \/ IssuedRequest(res))
    /\ metricsSent' = SentAfterEmit(datapoints, res)
    /\ metricsDropped' = DroppedAfterEmit(datapoints, res)
    /\ everFailed' = (everFailed \/ ~Succeeded(res))
    /\ pc' = EmitReturnsTo(res)
    /\ UNCHANGED << now, config, producerVars, datapoints, anchors, loopLocals,
                    emissionTimes, nextAddr, selfAddrs, handed, now68, flushed,
                    attempts >>

\* Run, lines 96-103: stamp lastEmission, record the elapsed time, reset the
\* buffer; the iteration ends (the loop body's locals go out of scope).
FinishEmit ==
    /\ pc = "l96"
    /\ lastEmission' = EmissionStamp
    /\ emissionTimes' = RecordEmissionTime(emissionTimes,
                                           lastEmission' - beforeEmission,
                                           outcome)
    /\ datapoints' = BufferAfterEmit(datapoints, outcome)
    /\ emitIntervalPassed' = FALSE
    /\ emitHandlerIntervalPassed' = FALSE
    /\ doEmit' = FALSE
    /\ beforeEmission' = 0
    /\ outcome' = "none"
    /\ now68' = 0
    /\ pc' = "recv"
    /\ UNCHANGED << now, config, producerVars, lastHandlerMetricsEmission,
                    metricsSent, metricsDropped, nextAddr, selfAddrs, handed,
                    httpIssued, flushed, everFailed, attempts >>

\* Run, line 63 on a closed channel: the range loop ends and Run returns.
RunExit ==
    /\ pc = "recv"
    /\ RangeDone
    /\ handed' = HandedAtExit(handed, datapoints)
    /\ pc' = "done"
    /\ UNCHANGED << now, config, producerVars, datapoints, anchors, loopLocals,
                    selfState, outcome, nextAddr, selfAddrs, httpIssued, now68,
                    flushed, everFailed, attempts >>

\* The steps of the Run goroutine.
RunStep ==
    \/ RunStart
    \/ \E p \in Producers : Dequeue(p)
    \/ CheckTriggers
    \/ SelfReport
    \/ SkipSelfReport
    \/ BeginEmit
    \/ SkipEmit
    \/ \E res \in AllResults : EmitMetrics(res)
    \/ FinishEmit
    \/ RunExit

Next ==
    \/ Tick
    \/ \E p \in Producers, m \in MetricInputs : Send(p, m)
    \/ Close
    \/ RunStep

Spec == Init /\ [][Next]_vars

\* The Run goroutine keeps being scheduled and the clock keeps advancing;
\* producers may stop sending at any time.
FairSpec == Spec /\ WF_vars(RunStep) /\ WF_vars(Tick)

\* ------------------------------------------------------------ properties
IsSelf(dp) == dp.addr \in selfAddrs

\* The DataPoints of dps built from producers' metrics.
ProducerPoints(dps) == SelectSeq(dps, LAMBDA dp : ~IsSelf(dp))

\* The buffer's length when line 70 of the current iteration read it: the
\* DataPoint of the dequeued metric was the last one appended before it.
LenAtDecision ==
    LET idx == {i \in 1..Len(datapoints) : ~IsSelf(datapoints[i])}
    IN  IF idx = {} THEN 0 ELSE CHOOSE i \in idx : \A j \in idx : j <= i

\* The flush condition of the current iteration, from the clock value read
\* at line 68 and the buffer as it was at line 70.
FlushDue ==
    \/ now68 - lastEmission >= Interval
    \/ LenAtDecision >= maxBufferSize

NoSendPending == \A p \in Producers : sending[p] = NoMetric

\* C1: in every iteration of Run, once the dequeued metric's DataPoint is
\* appended, emitMetrics is called in that iteration if and only if the
\* interval has elapsed since lastEmission or the buffer has reached
\* maxBufferSize; when neither holds the iteration ends with the buffer
\* kept as it is, nothing handed to emitMetrics.
C1_FlushIffDue ==
    [][ (pc = "l92" /\ pc' # "l92") =>
            /\ (pc' = "l95") <=> FlushDue
            /\ ~FlushDue => /\ pc' = "recv"
                            /\ datapoints' = datapoints
                            /\ handed' = handed ]_vars

\* C1 witness: a flush is under way that was due by the interval alone,
\* the buffer still below maxBufferSize.
C1_Witness ==
    /\ pc = "l95"
    /\ now68 - lastEmission >= Interval
    /\ LenAtDecision < maxBufferSize

\* C2: whatever way emitMetrics ends, control returns to line 96, and the
\* step that follows leaves the buffer empty and lastEmission equal to the
\* clock's current value, with Run back at the channel receive; so between
\* a flush attempt and the next dequeue the buffer is empty.
C2_FlushResets ==
    /\ [][ (pc = "l95" /\ pc' # "l95") => pc' = "l96" ]_vars
    /\ [][ (pc = "l96" /\ pc' # "l96") =>
              /\ pc' = "recv"
              /\ datapoints' = <<>>
              /\ lastEmission' = now' ]_vars
    /\ [](pc = "recv" /\ flushed => datapoints = <<>>)

\* C2 witness: Run is back at the receive after a flush attempt that took
\* time and did not succeed, the buffer empty and lastEmission at the clock.
C2_Witness ==
    /\ pc = "recv"
    /\ flushed
    /\ everFailed
    /\ datapoints = <<>>
    /\ lastEmission = now
    /\ emissionTimes # <<>>
    /\ emissionTimes[Len(emissionTimes)] > 0

\* A buffer that has gone stale while small: Run waits at the channel
\* receive with DataPoints buffered, no send in progress, and the interval
\* elapsed since lastEmission.
StaleBuffer ==
    /\ pc = "recv"
    /\ datapoints # <<>>
    /\ NoSendPending
    /\ now - lastEmission >= Interval

\* C3: a stale-but-small buffer still flushes once the interval has passed:
\* from a stale buffer a flush attempt eventually follows (checked under
\* FairSpec: Run keeps being scheduled, the clock keeps advancing, and no
\* producer is obliged to send again).
C3_StaleBufferFlushes == StaleBuffer ~> (pc = "l95")

\* C4: where the flush decision is evaluated (line 70-71, the dequeued
\* metric's DataPoint appended) the buffer holds at most maxBufferSize
\* DataPoints, self-metric DataPoints of earlier iterations included.
C4_BufferWithinMax == (pc = "l69") => Len(datapoints) <= maxBufferSize

\* No self-metric DataPoint of the buffer was appended in an iteration
\* before the one that dequeued the buffer's last producer DataPoint.
NoEarlierSelf ==
    \A i, j \in 1..Len(datapoints) :
        (i < j /\ IsSelf(datapoints[i])) => IsSelf(datapoints[j])

C6_SentCounted ==
    [][ (pc = "l95" /\ pc' # "l95" /\ outcome' = "200 OK") =>
            metricsSent' = metricsSent + Len(datapoints) ]_vars

\* C7: a self-report step comes at least Interval after the previous one
\* (lastHandlerMetricsEmission holds the clock value of the previous one,
\* or of Run's start), and right after it the sent counter is 0, the
\* dropped counter is 0 and emissionTimes is empty.
C7_SelfReportOncePerInterval ==
    [][ (pc = "l73" /\ pc' # "l73" /\ emitHandlerIntervalPassed) =>
            /\ lastHandlerMetricsEmission' = now'
            /\ lastHandlerMetricsEmission' - lastHandlerMetricsEmission >= Interval
            /\ metricsSent' = 0
            /\ metricsDropped' = 0
            /\ emissionTimes' = <<>> ]_vars

\* C7 witness: a second self-report step has just run, after a flush whose
\* elapsed time it cleared.
C7_Witness ==
    /\ pc = "l92"
    /\ emitHandlerIntervalPassed
    /\ Cardinality(selfAddrs) >= 6
    /\ handed # <<>>
    /\ emissionTimes = <<>>

\* C8: no failed flush ends or blocks the consumer: Run has returned only
\* if the channel was closed; inside an iteration Run always has a next
\* step; and at the channel receive, also after flush attempts have failed,
\* every metric a producer is sending can be dequeued.
C8_FailureDoesNotStopRun ==
    /\ (pc = "done") => closed
    /\ (pc \notin {"recv", "done"}) => ENABLED RunStep
    /\ (pc = "recv") =>
          \A p \in Producers : sending[p] # NoMetric => ENABLED Dequeue(p)

\* C8 witness: an emitMetrics call has just succeeded after an earlier
\* flush attempt failed.
C8_Witness ==
    /\ pc = "l96"
    /\ outcome = "200 OK"
    /\ everFailed

\* C9: no DataPoint is handed to emitMetrics twice, and outside a flush the
\* buffer holds no DataPoint that was already handed to emitMetrics.
C9_NoRetry ==
    /\ \A i, j \in 1..Len(handed) : handed[i] = handed[j] => i = j
    /\ (pc \in {"recv", "l69", "l73", "l92"}) =>
          \A i \in 1..Len(datapoints) :
              \A j \in 1..Len(handed) : datapoints[i].addr # handed[j]

\* C9 witness: after a flush attempt that failed, a later batch is being
\* handed to emitMetrics.
C9_Witness ==
    /\ pc = "l95"
    /\ everFailed
    /\ Len(handed) > Len(datapoints)

\* C10: with an empty authToken or an empty endpoint no emitMetrics call
\* reaches client.Do, and each flush attempt still leaves the buffer empty.
C10_NoRequestWithoutConfig ==
    (authToken = "" \/ endpoint = "") =>
        /\ ~httpIssued
        /\ (pc = "l96") => outcome = "skipped"
        /\ (pc = "recv" /\ flushed) => datapoints = <<>>

\* C10 witness: only the endpoint is missing, and a second batch has been
\* flushed as a skipped send.
C10_Witness ==
    /\ authToken # ""
    /\ endpoint = ""
    /\ pc = "recv"
    /\ flushed
    /\ datapoints = <<>>
    /\ Len(handed) >= 2
    /\ Len(emissionTimes) >= 2
\* ------------------------------------------------------------------- C11
\* The addresses of the producer DataPoints of a sequence of addresses, in
\* the order of the sequence.
ProducerAddrs(as) == SelectSeq(as, LAMBDA a : a \notin selfAddrs)

\* The producer DataPoints handed to emitMetrics so far, followed by those
\* still buffered and not handed.  (Between BeginEmit and FinishEmit the
\* buffer is the batch being handed.)
HandedThenBuffered ==
    ProducerAddrs(handed) \o
    (IF pc \in {"l95", "l96"} THEN <<>> ELSE ProducerAddrs(Addrs(datapoints)))

\* C11: DataPoints are flushed in the order their metrics were dequeued:
\* addresses are allocated in dequeue order, so the producer DataPoints of
\* all flushed batches, concatenated, are the first ones dequeued, each once
\* and in increasing order, and the buffer continues that order.
C11_FlushedInDequeueOrder ==
    LET hb == HandedThenBuffered
    IN  /\ \A i \in 1..Len(hb) :
              hb[i] = CHOOSE a \in (1..(nextAddr - 1)) \ selfAddrs :
                        Cardinality({b \in (1..a) \ selfAddrs : TRUE}) = i
        /\ Len(hb) = Cardinality((1..(nextAddr - 1)) \ selfAddrs)
        /\ \A i, j \in 1..Len(datapoints) :
              i < j => datapoints[i].addr < datapoints[j].addr

\* Two batches have been handed, the second holding two producer DataPoints
\* and self-metrics between them.
C11_Witness ==
    /\ pc = "l95"
    /\ Len(ProducerAddrs(handed)) >= 3
    /\ Len(ProducerAddrs(Addrs(datapoints))) >= 2
    /\ \E i \in 1..Len(datapoints) : datapoints[i].addr \in selfAddrs
    /\ Len(handed) > Len(datapoints)

\* ------------------------------------------------------------------- C12
\* The addresses in a sequence of addresses.
AddrSet(as) == {as[i] : i \in 1..Len(as)}

\* The buffer holds DataPoints that no emitMetrics call has been given.
BufferNotHanded == pc \notin {"l95", "l96"}

\* C12: an iteration whose self-report trigger is due appends exactly three
\* DataPoints (emission time, metrics sent, metrics dropped, in that order)
\* right after the DataPoint of the metric it dequeued, whether or not a
\* flush is due; every self-metric DataPoint is either still buffered or
\* was handed to emitMetrics, so the first flush attempt at or after its
\* iteration carries it (the same iteration's flush when one is due).
C12_SelfMetricsAppendedAndCarried ==
    /\ [][(pc = "l73" /\ emitHandlerIntervalPassed /\ pc' # pc) =>
           LET n == Len(datapoints)
           IN  /\ Len(datapoints') = n + 3
               /\ SubSeq(datapoints', 1, n) = datapoints
               /\ n >= 1
               /\ datapoints[n].addr \notin selfAddrs
               /\ datapoints[n].addr = nextAddr - 1
               /\ datapoints'[n + 1].Metric = Prefix \o <<"HandlerEmitTiming">>
               /\ datapoints'[n + 2].Metric = Prefix \o <<"MetricsSent">>
               /\ datapoints'[n + 3].Metric = Prefix \o <<"MetricsDropped">>
               /\ selfAddrs' = selfAddrs \cup
                     {datapoints'[i].addr : i \in (n + 1)..(n + 3)}
               /\ Cardinality(selfAddrs') = Cardinality(selfAddrs) + 3
          ]_vars
    /\ [](\A a \in selfAddrs :
             (a \in AddrSet(handed)) #
             (BufferNotHanded /\ a \in AddrSet(Addrs(datapoints))))
    /\ []((pc = "l95" /\ emitHandlerIntervalPassed) =>
            /\ Len(handed) >= 4
            /\ \A k \in 0..2 : /\ handed[Len(handed) - k] = nextAddr - 1 - k
                                 /\ nextAddr - 1 - k \in selfAddrs)

\* The self-report fired in an iteration with no flush due: its three
\* DataPoints wait in the buffer behind the iteration's metric DataPoint.
C12_Witness ==
    /\ pc = "l92"
    /\ emitHandlerIntervalPassed
    /\ ~doEmit
    /\ Len(datapoints) >= 4
    /\ datapoints[Len(datapoints)].addr \in selfAddrs
    /\ datapoints[Len(datapoints)].addr \notin AddrSet(handed)

\* ------------------------------------------------------------------- C13
\* C13: the sent and dropped counters change only in the self-report step,
\* which sets both to zero; the steps of a flush attempt (the emitMetrics
\* call and what follows it), whatever the outcome, leave both unchanged.
C13_CountersOnlyResetBySelfReport ==
    /\ [][(metricsSent' # metricsSent \/ metricsDropped' # metricsDropped) =>
           (pc = "l73" /\ emitHandlerIntervalPassed)]_vars
    /\ [][(pc = "l73" /\ emitHandlerIntervalPassed /\ pc' # pc) =>
           (metricsSent' = 0 /\ metricsDropped' = 0)]_vars
    /\ [][(pc \in {"l92", "l95", "l96"}) =>
           (metricsSent' = metricsSent /\ metricsDropped' = metricsDropped)]_vars

\* After a self-report step, one emitMetrics call has ended in success and
\* another call before it had ended in failure.
C13_Witness ==
    /\ pc = "l96"
    /\ outcome = "200 OK"
    /\ everFailed
    /\ selfAddrs # {}
    /\ metricsSent = 0
    /\ metricsDropped = 0

\* ------------------------------------------------------------------- C14
\* The number of metrics Run has dequeued, converted and appended: one
\* producer DataPoint is allocated for each.
Dequeued == Cardinality((1..(nextAddr - 1)) \ selfAddrs)

\* The handler with one buffer size and every configuration of authToken
\* and endpoint; the Run goroutine keeps being scheduled.
DrainInit == Init /\ maxBufferSize = DrainBufferSize

DrainSpec == DrainInit /\ [][Next]_vars /\ WF_vars(RunStep)

\* C14: once the channel is closed Run terminates, and when it has
\* terminated every metric sent before the close was dequeued, converted
\* and appended; Run does not terminate while the channel is open.
C14_TerminatesAfterDrain ==
    /\ closed ~> (pc = "done")
    /\ [](pc = "done" =>
            /\ closed
            /\ \A p \in Producers : sending[p] = NoMetric
            /\ Dequeued = nsent)
    /\ [][pc = "done" => pc' = "done"]_vars

\* Run has terminated after a close that followed three metrics.
C14_Witness ==
    /\ pc = "done"
    /\ closed
    /\ nsent >= 3
    /\ Dequeued = nsent

\* ------------------------------------------------------------------- C15
\* The producers blocked in a send.
Blocked == {p \in Producers : sending[p] # NoMetric}

\* C15: with several producers sending concurrently, a send completes only
\* in Run's receive, one at a time and never while a flush is in progress
\* (producers blocked during emitMetrics stay blocked); every metric sent
\* is either still blocked in its send or was dequeued exactly once; and
\* the buffer, the anchors, the counters and the emission times change
\* only in steps of the consumer.
C15_SingleConsumerSynchronousFlush ==
    /\ [][(\E p \in Blocked : sending'[p] # sending[p]) =>
           /\ pc = "recv" /\ pc' = "l69"
           /\ Cardinality(Blocked \ Blocked') = 1
           /\ Dequeued' = Dequeued + 1]_vars
    /\ [][(pc \in {"l95", "l96"}) =>
           (Blocked \subseteq Blocked' /\ Dequeued' = Dequeued)]_vars
    /\ [](Dequeued + Cardinality(Blocked) = nsent)
    /\ [][(<< datapoints, anchors, selfState >>' #
             << datapoints, anchors, selfState >>) => pc' # pc]_vars

\* emitMetrics is in progress while both producers are blocked in a send.
C15_Witness ==
    /\ pc = "l95"
    /\ Blocked = Producers
    /\ Dequeued >= 2
    /\ nsent = Dequeued + 2

\* ------------------------------------------------------------------- C16
\* C16: emitMetrics treats a response as a success if and only if its HTTP
\* status is 200: the first call that gets a response takes a failure path
\* exactly when the status code of that response is not 200.
C16_SuccessIffStatus200 ==
    [][(pc = "l95" /\ ~everFailed /\ outcome' \in Statuses) =>
       (everFailed' <=> StatusCode(outcome') # 200)]_vars

\* ------------------------------------------------------------------- C17
\* The metrics convertToProto is applied to: two names, two values, the
\* three metric types of the switch and one it does not list.
ConvInputs ==
    [ Name : {<<"cpu">>, <<"mem", "used">>},
      Value : {0, 1},
      MetricType : {"gauge", "counter", "cumcounter", "timer"} ]

\* convertToProto(m) is called on behalf of producer p: the metric is kept
\* in sending, the DataPoint it returns in datapoints.
ConvApply(p, m) ==
    /\ nextAddr <= MaxConv
    /\ sending' = [q \in Producers |-> IF q = p THEN m ELSE NoMetric]
    /\ datapoints' = << convertToProto(m, nextAddr) >>
    /\ nextAddr' = nextAddr + 1
    /\ UNCHANGED << now, pc, closed, nsent, config, anchors, loopLocals,
                    selfState, outcome, history >>

ConvNext == \E p \in Producers, m \in ConvInputs : ConvApply(p, m)

\* convertToProto applied to metrics drawn from ConvInputs, for every
\* configuration of the handler.
ConvSpec == Init /\ [][ConvNext]_vars

\* C17: the DataPoint convertToProto returns for a metric has the prefix
\* followed by the metric's name as its name, the metric's value, the
\* source "fullerite", and the type GAUGE, COUNTER or CUMULATIVE_COUNTER for
\* a Gauge, Counter or CumulativeCounter metric and no type for any other;
\* every metric gets a DataPoint, and the call leaves the handler's state
\* (anchors, counters, emission times) as it was.
C17_ConvertToProto ==
    \A p \in Producers :
        sending[p] # NoMetric =>
            /\ Len(datapoints) = 1
            /\ LET m == sending[p]
                   dp == datapoints[1]
               IN  /\ Len(dp.Metric) = Len(Prefix) + Len(m.Name)
                   /\ SubSeq(dp.Metric, 1, Len(Prefix)) = Prefix
                   /\ SubSeq(dp.Metric, Len(Prefix) + 1, Len(dp.Metric)) = m.Name
                   /\ dp.Value = m.Value
                   /\ dp.Source = "fullerite"
                   /\ m.MetricType = "gauge" => dp.MetricType = "GAUGE"
                   /\ m.MetricType = "counter" => dp.MetricType = "COUNTER"
                   /\ m.MetricType = "cumcounter" =>
                          dp.MetricType = "CUMULATIVE_COUNTER"
                   /\ m.MetricType \notin {"gauge", "counter", "cumcounter"} =>
                          dp.MetricType = "unset"
            /\ emissionTimes = <<>> /\ metricsSent = 0 /\ metricsDropped = 0
            /\ lastEmission = 0 /\ lastHandlerMetricsEmission = 0

\* A metric of a type the switch does not list was converted: its
\* DataPoint has the prefixed two-part name and no type.
C17_Witness ==
    /\ sending["p2"].MetricType = "timer"
    /\ sending["p2"].Name = <<"mem", "used">>
    /\ datapoints = << [ addr |-> 2, Metric |-> <<"pfx.", "mem", "used">>,
                         Value |-> 1, Source |-> "fullerite",
                         MetricType |-> "unset" ] >>

\* ------------------------------------------------------------------- C18
\* C18: every flush attempt, whatever its outcome, adds exactly one entry
\* to emissionTimes, after emitMetrics has returned: in every state the
\* length of emissionTimes is the number of flush attempts made since the
\* latest self-report step, not counting an attempt still in progress; a
\* flush in the same iteration as a self-report step is recorded after the
\* reset, so it is the one entry the list then holds.
C18_OneEmissionTimePerFlush ==
    /\ Len(emissionTimes) =
          attempts - (IF pc \in {"l95", "l96"} THEN 1 ELSE 0)
    /\ (pc \in {"l95", "l96"} /\ emitHandlerIntervalPassed)
          => (attempts = 1 /\ emissionTimes = <<>>)

\* Two flush attempts since the latest self-report step, one of them
\* failed, have left two entries.
C18_Witness ==
    /\ pc = "recv"
    /\ attempts = 2
    /\ Len(emissionTimes) = 2
    /\ everFailed
    /\ selfAddrs # {}

\* ------------------------------------------------------------------- C19
\* A longer run of one producer against a handler with a small or a large
\* buffer and no endpoint configured (every emitMetrics call ends at its
\* configuration check, after it was given the batch).
LongRunInit ==
    /\ now = 0
    /\ pc = "start"
    /\ sending = [p \in Producers |-> NoMetric]
    /\ closed = FALSE
    /\ authToken = "token"
    /\ endpoint = ""
    /\ maxBufferSize \in {1, LargeBufferSize}
    /\ datapoints = <<>>
    /\ lastEmission = 0
    /\ lastHandlerMetricsEmission = 0
    /\ emitIntervalPassed = FALSE
    /\ emitHandlerIntervalPassed = FALSE
    /\ doEmit = FALSE
    /\ beforeEmission = 0
    /\ emissionTimes = <<>>
    /\ metricsSent = 0
    /\ metricsDropped = 0
    /\ outcome = "none"
    /\ nextAddr = 1
    /\ nsent = 0
    /\ selfAddrs = {}
    /\ handed = <<>>
    /\ httpIssued = FALSE
    /\ now68 = 0
    /\ flushed = FALSE
    /\ everFailed = FALSE
    /\ attempts = 0

\* The clock advances (up to LongRunMaxTime).
LongRunTick ==
    /\ now < LongRunMaxTime
    /\ now' = now + 1
    /\ UNCHANGED << pc, config, producerVars, datapoints, anchors, loopLocals,
                    selfState, outcome, nextAddr, history >>

\* The producer starts a send and blocks in it (up to LongRunMaxMetrics
\* sends).
LongRunSend(p, m) ==
    /\ ~closed
    /\ nsent < LongRunMaxMetrics
    /\ sending[p] = NoMetric
    /\ sending' = [sending EXCEPT ![p] = m]
    /\ nsent' = nsent + 1
    /\ UNCHANGED << now, pc, closed, config, datapoints, anchors, loopLocals,
                    selfState, outcome, nextAddr, history >>

LongRunNext ==
    \/ LongRunTick
    \/ \E m \in MetricInputs : LongRunSend("p1", m)
    \/ Close
    \/ RunStep

LongRunSpec == LongRunInit /\ [][LongRunNext]_vars

\* The number of self-metric DataPoints in a sequence of DataPoints.
SelfCount(dps) == Len(dps) - Len(ProducerAddrs(Addrs(dps)))

\* The number of producer DataPoints in a sequence of DataPoints.
ProducerCount(dps) == Len(ProducerAddrs(Addrs(dps)))

\* C19 as stated: every batch Run hands to emitMetrics is non-empty and
\* holds at most maxBufferSize producer DataPoints and at most 6
\* self-metric DataPoints (two self-report steps), so between 1 and
\* maxBufferSize + 6 DataPoints.
C19_BatchSizes ==
    pc = "l95" =>
        /\ Len(datapoints) >= 1
        /\ ProducerCount(datapoints) <= maxBufferSize
        /\ SelfCount(datapoints) <= 6
        /\ Len(datapoints) <= maxBufferSize + 6

\* C19, amended: every batch Run hands to emitMetrics is non-empty and
\* holds at most maxBufferSize producer DataPoints and at most 9
\* self-metric DataPoints (three self-report steps), and between 1 and
\* maxBufferSize + 6 DataPoints in all.
C19_BatchSizesThreeSelfReports ==
    pc = "l95" =>
        /\ Len(datapoints) >= 1
        /\ ProducerCount(datapoints) <= maxBufferSize
        /\ SelfCount(datapoints) <= 9
        /\ Len(datapoints) <= maxBufferSize + 6

\* A batch of three producer DataPoints and the self-metric DataPoints of
\* three self-report steps is handed to emitMetrics.
C19_Witness ==
    /\ pc = "l95"
    /\ SelfCount(datapoints) = 9
    /\ ProducerCount(datapoints) = 3
    /\ maxBufferSize = LargeBufferSize

\* ------------------------------------------------------------------- C20
\* C20: a flush attempt starts only inside an iteration that dequeued a
\* metric (the batch ends with that metric's DataPoint and any self-metric
\* DataPoints appended after it); once the channel is closed and Run has
\* returned no flush attempt is made, so the DataPoints buffered since the
\* last flush are never handed to emitMetrics.
C20_NoFlushAfterExit ==
    /\ [][handed' # handed =>
           /\ pc = "l92" /\ pc' = "l95" /\ doEmit
           /\ \E i \in 1..Len(datapoints) :
                 /\ datapoints[i].addr \notin selfAddrs
                 /\ \A a \in (1..(nextAddr - 1)) \ selfAddrs :
                       a <= datapoints[i].addr]_vars
    /\ [](pc = "done" =>
            AddrSet(Addrs(datapoints)) \cap AddrSet(handed) = {})
    /\ [][pc = "done" => (handed' = handed /\ datapoints' = datapoints)]_vars

\* Run has returned with a producer DataPoint and three self-metric
\* DataPoints in the buffer that no emitMetrics call was given.
C20_Witness ==
    /\ pc = "done"
    /\ Len(datapoints) = 4
    /\ SelfCount(datapoints) = 3
    /\ AddrSet(Addrs(datapoints)) \cap AddrSet(handed) = {}
    /\ handed # <<>>

====
